---- MODULE Spec2Model ----
(***************************************************************************)
(* Job-Connect backend: the Express handlers of jobController.js,          *)
(* applicationController.js and authController.js over the three Mongoose  *)
(* collections (users, jobs, applications), the Cloudinary file store and  *)
(* the SMTP sender.                                                        *)
(*                                                                         *)
(* A handler is one action per store operation it awaits.  The bearer gate *)
(* (isAuthenticated) runs in the same step as the handler's synchronous    *)
(* prefix and its first awaited operation; a handler that awaits again     *)
(* parks in `reqs` and resumes in a later step, so other requests and the  *)
(* clock interleave between its awaits.  A request input that the handler  *)
(* first reads after an await is drawn at the step that reads it.          *)
(*                                                                         *)
(* Time is counted in whole days.  An optional value (a body field that    *)
(* may be missing, a nullable document field) is a set of at most one      *)
(* element.                                                                *)
(***************************************************************************)
EXTENDS Integers, Sequences, FiniteSets, TLC

\* ---------------------------------------------------------------- bounds
MaxTime == 2        \* the clock runs over days 0..MaxTime
MaxTTL == 1         \* timeLeftToExpire values 0..MaxTTL
MaxJobs == 1        \* job documents ever created where jobs are written or applied to
MaxListed == 3      \* job documents ever created where the board is listed
MaxPage == 2        \* page and limit values 0..MaxPage of a listing request
MaxApps == 2        \* application documents ever created
MaxFiles == 2       \* file-store objects ever uploaded
NEmails == 3        \* distinct valid e-mail addresses (the unique index bounds the users)
MaxInFlight == 2    \* handlers parked at an await at the same time

\* ---------------------------------------------------------------- optional values
None == {}
Some(x) == {x}
Has(o) == o # {}
Val(o) == CHOOSE x \in o : TRUE
Opt(S) == {None} \cup {Some(x) : x \in S}
OrElse(o, d) == IF Has(o) THEN Val(o) ELSE d

\* ---------------------------------------------------------------- value spaces
JobSeeker == "Job Seeker"
Employer == "Employer"
Roles == {JobSeeker, Employer}
Levels == {"Entry Level", "Mid Level", "Senior Level"}
Emails == 1..NEmails
BadEmail == 0
UserIds == 1..NEmails
JobIds == 1..MaxJobs
AppIds == 1..MaxApps
FileIds == 1..MaxFiles
Days == 0..MaxTime
Anonymous == 0      \* a request without a valid bearer token
NoId == 0

\* the required String paths of jobSchema other than title
RequiredStrings == {"company", "description", "category", "country", "city", "location"}

VARIABLES
  users,         \* User collection: _id -> document
  jobs,          \* Job collection: _id -> document
  applications,  \* Application collection: _id -> document
  files,         \* Cloudinary: the public_ids of the stored objects
  now,           \* the current day
  jobSeq,        \* number of job ids issued
  appSeq,        \* number of application ids issued
  fileSeq,       \* number of file public_ids issued
  reqs,          \* handlers parked at an await: slot -> context
  mail,          \* sendEmail calls whose promise is still pending
  resp,          \* the response written by the last step (op "none" when the step answered
                 \* nothing): status, the _id of the document in its body (NoId for none or
                 \* null) and, for a listing, the documents listed
  authContext,   \* the React state of AuthProvider in the browser: user, token, loading
  localStorage,  \* the browser's localStorage entry 'token'
  awaiting       \* the promises AuthProvider awaits: the number of logoutUser calls, the
                 \* tokens of the getCurrentUser calls, and how the last logoutUser settled

server == <<users, jobs, applications, files, now, jobSeq, appSeq, fileSeq, reqs, mail, resp>>
browser == <<authContext, localStorage, awaiting>>
vars == <<users, jobs, applications, files, now, jobSeq, appSeq, fileSeq, reqs, mail, resp,
          authContext, localStorage, awaiting>>

Slots == 1..MaxInFlight
Idle == [op |-> "idle"]
NoResp == [op |-> "none", caller |-> Anonymous, status |-> 0, id |-> NoId, out |-> None, message |-> ""]
Reply(op, caller, status, id, out) ==
  [op |-> op, caller |-> caller, status |-> status, id |-> id, out |-> out, message |-> ""]
\* an answer that carries no document, only its message
Refuse(op, caller, status, id, message) ==
  [op |-> op, caller |-> caller, status |-> status, id |-> id, out |-> None, message |-> message]
\* a line written by console.error
Logged(line, id) ==
  [op |-> "console.error", caller |-> Anonymous, status |-> 0, id |-> id, out |-> None,
   message |-> line]

InFlight == {s \in Slots : reqs[s].op # "idle"}

Init ==
  /\ users = <<>>
  /\ jobs = <<>>
  /\ applications = <<>>
  /\ files = {}
  /\ now = 0
  /\ jobSeq = 0
  /\ appSeq = 0
  /\ fileSeq = 0
  /\ reqs = [s \in Slots |-> Idle]
  /\ mail = {}
  /\ resp = NoResp
  /\ authContext = [user |-> None, token |-> None, loading |-> FALSE]
  /\ localStorage = None
  /\ awaiting = [logoutUser |-> 0, getCurrentUser |-> {}, settled |-> "none"]

\* ---------------------------------------------------------------- the clock
Tick ==
  /\ UNCHANGED browser
  /\ now < MaxTime
  /\ now' = now + 1
  /\ resp' = NoResp
  /\ UNCHANGED <<users, jobs, applications, files, jobSeq, appSeq, fileSeq, reqs, mail>>

\* ---------------------------------------------------------------- User model (models/user.js)
Names == {"Al", "Alice"}
NameLen(n) == IF n = "Al" THEN 2 ELSE 5
Passwords == {"short", "longenough"}
PasswordLen(p) == IF p = "short" THEN 5 ELSE 10
Phones == {5550100}
Skillsets == {<<>>, <<"js">>}
Hash(p) == [bcrypt |-> p]

\* validator.isEmail
isEmail(e) == e \in Emails

\* userSchema's validators over a document that is about to be written
userSchemaValid(doc) ==
  /\ Has(doc.name) /\ NameLen(Val(doc.name)) >= 3 /\ NameLen(Val(doc.name)) <= 30
  /\ Has(doc.email) /\ isEmail(Val(doc.email))
  /\ Has(doc.phone)
  /\ Has(doc.password) /\ PasswordLen(Val(doc.password)) >= 8
  /\ Has(doc.role) /\ Val(doc.role) \in Roles

\* the unique index on email
emailTaken(e, except) == \E u \in DOMAIN users : u # except /\ users[u].email = e

\* the resume path of a User document, { public_id, url }: nothing until uploadProfileResume
\* stores a reference. The controllers write and read this path; models/user.js, as it
\* stands in the sources, declares no such path.
NoResume == None

\* userSchema.pre('save'): the password is stored hashed
userPreSave(doc) ==
  [_id |-> doc._id, name |-> Val(doc.name), email |-> Val(doc.email), phone |-> Val(doc.phone),
   password |-> Hash(Val(doc.password)), role |-> Val(doc.role),
   skillset |-> OrElse(doc.skillset, <<>>), resume |-> NoResume]

\* a document as res.json serializes it when the query did not select the password
withoutPassword(u) ==
  [_id |-> u._id, name |-> u.name, email |-> u.email, phone |-> u.phone,
   role |-> u.role, skillset |-> u.skillset, resume |-> u.resume]

\* isAuthenticated: the bearer token resolves to a stored user, or the request is refused
Callers == DOMAIN users

RegisterBodies ==
  [name : Opt(Names), email : Opt(Emails \cup {BadEmail}), phone : Opt(Phones),
   password : Opt(Passwords), role : Opt(Roles \cup {"Admin"}), skillset : Opt(Skillsets)]

\* register's three early returns
registerRejects_seekersOnly(b) ==
  \/ ~Has(b.name) \/ ~Has(b.email) \/ ~Has(b.phone) \/ ~Has(b.password) \/ ~Has(b.role)
  \/ (b.role = Some(JobSeeker) /\ (~Has(b.skillset) \/ Len(Val(b.skillset)) = 0))
registerRejects(b) ==
  \/ ~Has(b.name) \/ ~Has(b.email) \/ ~Has(b.phone) \/ ~Has(b.password) \/ ~Has(b.role)
  \/ (b.role = Some(Employer) /\ Has(b.skillset) /\ Len(Val(b.skillset)) > 0)
  \/ (b.role = Some(JobSeeker) /\ (~Has(b.skillset) \/ Len(Val(b.skillset)) = 0))

\* the message of the early return that fires, in the order of the code
registerMessage(b) ==
  IF ~Has(b.name) \/ ~Has(b.email) \/ ~Has(b.phone) \/ ~Has(b.password) \/ ~Has(b.role)
    THEN "Please provide all required fields."
    ELSE IF b.role = Some(Employer)
      THEN "Employers should not provide a skillset."
      ELSE "Job Seekers must provide at least one skill."

\* the object register hands to User.create
registerDoc(b, id) ==
  [_id |-> id, name |-> b.name, email |-> b.email, phone |-> b.phone, password |-> b.password,
   role |-> b.role, skillset |-> IF b.role # Some(Employer) THEN b.skillset ELSE Some(<<>>)]

\* register: the 201 body carries newUser, the document User.create resolved to, as stored
register(b) ==
  /\ UNCHANGED browser
  /\ UNCHANGED <<jobs, applications, files, now, jobSeq, appSeq, fileSeq, reqs, mail>>
  /\ IF registerRejects(b)
       THEN /\ resp' = Refuse("register", Anonymous, 400, NoId, registerMessage(b))
            /\ UNCHANGED users
       ELSE LET id == Cardinality(DOMAIN users) + 1
                doc == registerDoc(b, id)
            IN IF userSchemaValid(doc) /\ ~emailTaken(Val(doc.email), NoId)
                 THEN /\ users' = users @@ (id :> userPreSave(doc))
                      /\ resp' = Reply("register", Anonymous, 201, id, Some(userPreSave(doc)))
                 ELSE /\ resp' = Refuse("register", Anonymous, 500, NoId,
                                        "Something went wrong while registering the user.")
                      /\ UNCHANGED users

\* bodies of POST /user/login
LoginBodies == [email : Opt(Emails), password : Opt(Passwords)]

\* bcrypt.compare(password, user.password)
isPasswordCorrect(password, stored) == stored = Hash(password)

\* createSendToken: user.password = undefined, then the user goes into the body
createSendToken(user) == withoutPassword(user)

\* login: User.findOne({ email }).select('+password'), bcrypt.compare, createSendToken
login(b) ==
  /\ UNCHANGED browser
  /\ UNCHANGED <<users, jobs, applications, files, now, jobSeq, appSeq, fileSeq, reqs, mail>>
  /\ IF ~Has(b.email) \/ ~Has(b.password)
       THEN resp' = Refuse("login", Anonymous, 400, NoId, "Please provide email, password.")
       ELSE LET found == {u \in DOMAIN users : users[u].email = Val(b.email)}
            IN IF found = {}
                 THEN resp' = Refuse("login", Anonymous, 401, NoId, "Invalid Email or Password.")
                 ELSE LET u == CHOOSE x \in found : TRUE
                      IN IF ~isPasswordCorrect(Val(b.password), users[u].password)
                           THEN resp' = Refuse("login", Anonymous, 401, NoId,
                                               "Invalid Email or Password.")
                           ELSE resp' = Reply("login", u, 200, u, Some(createSendToken(users[u])))

\* req.user as isAuthenticated loads it: the stored user, the password not selected
reqUser(u) == withoutPassword(users[u])

\* GET /user/me: the body carries req.user
getMe(u) ==
  /\ UNCHANGED browser
  /\ UNCHANGED <<users, jobs, applications, files, now, jobSeq, appSeq, fileSeq, reqs, mail>>
  /\ resp' = Reply("me", u, 200, u, Some(reqUser(u)))

\* ---------------------------------------------------------------- Job model (models/job.js)
Titles == {"", "Dev"}
LevelInputs == {"Entry Level", "Intern"}
JobFields == {"title", "others", "experienceLevel", "timeLeftToExpire", "jobPostedOn", "expired", "postedBy"}

\* req.body of a job request; `others` holds the required String paths other than title
\* that the body carries with a non-empty value
Present(b) == {f \in JobFields : Has(b[f])}

\* a form with every required field filled in, and the forms with one defect
PlainForm ==
  [title |-> Some("Dev"), others |-> Some(RequiredStrings), experienceLevel |-> Some("Entry Level"),
   timeLeftToExpire |-> Some(1), jobPostedOn |-> None, expired |-> None, postedBy |-> None]
DefectiveForms ==
  {[PlainForm EXCEPT !.title = None], [PlainForm EXCEPT !.title = Some("")],
   [PlainForm EXCEPT !.others = None],
   [PlainForm EXCEPT !.others = Some(RequiredStrings \ {"company"})],
   [PlainForm EXCEPT !.experienceLevel = None],
   [PlainForm EXCEPT !.experienceLevel = Some("Intern")],
   [PlainForm EXCEPT !.timeLeftToExpire = None]}

\* bodies of POST /job/post: the complete forms over the given jobPostedOn and expired
\* values, and the defective forms
JobForms(postedOns, expireds) ==
  {[PlainForm EXCEPT !.timeLeftToExpire = Some(t), !.jobPostedOn = p, !.expired = x,
                     !.postedBy = o] :
     t \in 0..MaxTTL, p \in postedOns, x \in expireds, o \in Opt(UserIds)}
  \cup DefectiveForms
PostJobBodies == JobForms(Opt(Days), Opt(BOOLEAN))

\* bodies of PATCH /job/update/:id: at most two of the stored paths
NoPatch ==
  [title |-> None, others |-> None, experienceLevel |-> None, timeLeftToExpire |-> None,
   jobPostedOn |-> None, expired |-> None, postedBy |-> None]
OnePathPatches ==
  {NoPatch}
  \cup {[NoPatch EXCEPT !.title = Some(v)] : v \in Titles}
  \cup {[NoPatch EXCEPT !.experienceLevel = Some(v)] : v \in LevelInputs}
  \cup {[NoPatch EXCEPT !.timeLeftToExpire = Some(v)] : v \in 0..MaxTTL}
  \cup {[NoPatch EXCEPT !.jobPostedOn = Some(v)] : v \in Days}
  \cup {[NoPatch EXCEPT !.expired = Some(v)] : v \in BOOLEAN}
  \cup {[NoPatch EXCEPT !.postedBy = Some(v)] : v \in UserIds}
Both(a, b) == [f \in JobFields |-> IF Has(b[f]) THEN b[f] ELSE a[f]]
PatchJobBodies == {Both(a, b) : a \in OnePathPatches, b \in OnePathPatches}

\* a required String path rejects a missing and an empty value
requiredString(o) == Has(o) /\ Val(o) # ""

\* jobSchema's validators over the paths of a new document
jobSchemaValid(doc) ==
  /\ requiredString(doc.title)
  /\ doc.others = Some(RequiredStrings)
  /\ Has(doc.experienceLevel) /\ Val(doc.experienceLevel) \in Levels
  /\ Has(doc.timeLeftToExpire)
  /\ Has(doc.postedBy)

\* schema defaults: jobPostedOn is Date.now, expired is false
jobDefaults(doc, today) ==
  [doc EXCEPT !.jobPostedOn = Some(OrElse(doc.jobPostedOn, today)),
              !.expired = Some(OrElse(doc.expired, FALSE))]

\* jobSchema.pre('save'): past the expiration date the job is marked expired
jobPreSave(job, today) ==
  IF today > job.jobPostedOn + job.timeLeftToExpire
    THEN [job EXCEPT !.expired = TRUE]
    ELSE job

\* the stored form of a validated document
jobDocument(doc, id) ==
  [_id |-> id, title |-> Val(doc.title), experienceLevel |-> Val(doc.experienceLevel),
   timeLeftToExpire |-> Val(doc.timeLeftToExpire), jobPostedOn |-> Val(doc.jobPostedOn),
   expired |-> Val(doc.expired), postedBy |-> Val(doc.postedBy)]

\* the expiration rule of the specification, evaluated at the current day
pastExpiry(job) == now > job.jobPostedOn + job.timeLeftToExpire

\* ---------------------------------------------------------------- jobController.js
\* postJob: { ...req.body, postedBy: req.user._id }
postJobDoc_bodyWins(b, user) ==
  IF Has(b.postedBy) THEN b ELSE [b EXCEPT !.postedBy = Some(user._id)]
postJobDoc(b, user) == [b EXCEPT !.postedBy = Some(user._id)]

postJob(u, b) ==
  /\ UNCHANGED browser
  /\ UNCHANGED <<users, applications, files, now, appSeq, fileSeq, reqs, mail>>
  /\ LET id == jobSeq + 1
         doc == jobDefaults(postJobDoc(b, users[u]), now)
     IN IF jobSchemaValid(doc)
          THEN LET job == jobPreSave(jobDocument(doc, id), now)
               IN /\ jobs' = jobs @@ (id :> job)
                  /\ jobSeq' = id
                  /\ resp' = Reply("postJob", u, 201, id, None)
          ELSE /\ resp' = Reply("postJob", u, 500, NoId, None)
               /\ UNCHANGED <<jobs, jobSeq>>

\* a free slot of `reqs`, when fewer than cap handlers are parked
FreeSlot(cap) == IF Cardinality(InFlight) < cap
                   THEN {CHOOSE s \in Slots : reqs[s].op = "idle" /\ \A t \in Slots : reqs[t].op = "idle" => s <= t}
                   ELSE {}
Park(s, ctx) == reqs' = [reqs EXCEPT ![s] = ctx]
Finish(s) == reqs' = [reqs EXCEPT ![s] = Idle]

\* a query parameter as the client spelled it: left out, not a number, or a number
QueryValues ==
  {[kind |-> "missing", n |-> 0], [kind |-> "text", n |-> 0]}
  \cup {[kind |-> "int", n |-> k] : k \in 0..MaxPage}

\* parseInt(q) || d: NaN and 0 are falsy
parseIntOr(q, d) == IF q.kind = "int" /\ q.n # 0 THEN q.n ELSE d

\* Math.ceil(totalJobs / limit), limit >= 1
ceilDiv(n, limit) == (n + limit - 1) \div limit

\* the sort key of sort({ createdAt: -1 }): jobSchema declares no createdAt path and no
\* timestamps, so no stored job has one
createdAt(job) == None

\* the orders Job.find().sort({ createdAt: -1 }) may answer in: descending by key, any
\* order among documents whose keys are equal
sortByCreatedAt(coll) ==
  {order \in [1..Cardinality(DOMAIN coll) -> DOMAIN coll] :
     /\ \A i, j \in DOMAIN order : i # j => order[i] # order[j]
     /\ \A i, j \in DOMAIN order :
          (i < j /\ Has(createdAt(coll[order[i]])) /\ Has(createdAt(coll[order[j]])))
            => Val(createdAt(coll[order[i]])) >= Val(createdAt(coll[order[j]]))}

\* .skip(skip).limit(limit)
skipLimit(order, skip, limit) ==
  IF skip >= Len(order) THEN <<>>
  ELSE SubSeq(order, skip + 1, IF skip + limit < Len(order) THEN skip + limit ELSE Len(order))

\* getAllJobs up to its first await: page, limit, skip, then Job.countDocuments()
getAllJobs_count(p, l, cap) ==
  /\ UNCHANGED browser
  /\ UNCHANGED <<users, jobs, applications, files, now, jobSeq, appSeq, fileSeq, mail>>
  /\ \E s \in FreeSlot(cap) :
       /\ Park(s, [op |-> "getAllJobs", pc |-> "find", page |-> parseIntOr(p, 1),
                   limit |-> parseIntOr(l, 10), totalJobs |-> Cardinality(DOMAIN jobs)])
       /\ resp' = NoResp

\* getAllJobs after countDocuments: Job.find().sort().skip().limit() and the 200 answer;
\* the body lists the jobs by _id, in the order of the answer
getAllJobs_find(s) ==
  /\ UNCHANGED browser
  /\ reqs[s].op = "getAllJobs" /\ reqs[s].pc = "find"
  /\ UNCHANGED <<users, jobs, applications, files, now, jobSeq, appSeq, fileSeq, mail>>
  /\ Finish(s)
  /\ \E order \in sortByCreatedAt(jobs) :
       resp' = Reply("getAllJobs", Anonymous, 200, NoId,
                     Some([currentPage |-> reqs[s].page,
                           totalPages |-> ceilDiv(reqs[s].totalJobs, reqs[s].limit),
                           totalJobs |-> reqs[s].totalJobs,
                           jobs |-> skipLimit(order, (reqs[s].page - 1) * reqs[s].limit,
                                              reqs[s].limit)]))

\* getMyJobs: Job.find({ postedBy: req.user._id })
getMyJobs(u) ==
  /\ UNCHANGED browser
  /\ UNCHANGED <<users, jobs, applications, files, now, jobSeq, appSeq, fileSeq, reqs, mail>>
  /\ IF users[u].role = JobSeeker
       THEN resp' = Reply("getMyJobs", u, 403, NoId, None)
       ELSE resp' = Reply("getMyJobs", u, 200, NoId, {j \in DOMAIN jobs : jobs[j].postedBy = u})

\* getSingleJob: Job.findById(id)
getSingleJob(u, id) ==
  /\ UNCHANGED browser
  /\ UNCHANGED <<users, jobs, applications, files, now, jobSeq, appSeq, fileSeq, reqs, mail>>
  /\ IF id \notin DOMAIN jobs
       THEN resp' = Reply("getSingleJob", u, 404, id, None)
       ELSE resp' = Reply("getSingleJob", u, 200, id, None)

\* req.user.role === 'Job Seeker': the only gate of updateJob and deleteJob
jobWriteForbidden_ownerOnly(user, id) ==
  user.role = JobSeeker \/ (id \in DOMAIN jobs /\ jobs[id].postedBy # user._id)
jobWriteForbidden(user, id) == user.role = JobSeeker

\* updateJob up to its first await: the role check, then Job.findById(id);
\* the thrown 'Job not found' is caught and answered 500
updateJob_findById(u, id, cap) ==
  /\ UNCHANGED browser
  /\ UNCHANGED <<users, jobs, applications, files, now, jobSeq, appSeq, fileSeq, mail>>
  /\ IF jobWriteForbidden(users[u], id)
       THEN resp' = Reply("updateJob", u, 403, id, None) /\ UNCHANGED reqs
       ELSE IF id \notin DOMAIN jobs
         THEN resp' = Reply("updateJob", u, 500, id, None) /\ UNCHANGED reqs
         ELSE \E s \in FreeSlot(cap) :
                /\ Park(s, [op |-> "updateJob", caller |-> u, id |-> id])
                /\ resp' = NoResp

\* update validators (runValidators: true) over the paths the body sets
patchValid(b) ==
  /\ Has(b.title) => Val(b.title) # ""
  /\ Has(b.experienceLevel) => Val(b.experienceLevel) \in Levels

\* the document after $set of the body's paths
jobPatched(job, b) ==
  [_id |-> job._id,
   title |-> OrElse(b.title, job.title),
   experienceLevel |-> OrElse(b.experienceLevel, job.experienceLevel),
   timeLeftToExpire |-> OrElse(b.timeLeftToExpire, job.timeLeftToExpire),
   jobPostedOn |-> OrElse(b.jobPostedOn, job.jobPostedOn),
   expired |-> OrElse(b.expired, job.expired),
   postedBy |-> OrElse(b.postedBy, job.postedBy)]

\* updateJob after Job.findById: Job.findByIdAndUpdate(id, req.body, { new: true,
\* runValidators: true }) and the 200 answer.  findByIdAndUpdate runs no pre('save') hook,
\* and answers null for a document that is gone
updateJob_findByIdAndUpdate(s, b) ==
  /\ UNCHANGED browser
  /\ reqs[s].op = "updateJob"
  /\ UNCHANGED <<users, applications, files, now, jobSeq, appSeq, fileSeq, mail>>
  /\ Finish(s)
  /\ LET id == reqs[s].id
         u == reqs[s].caller
     IN IF ~patchValid(b)
          THEN resp' = Reply("updateJob", u, 500, id, None) /\ UNCHANGED jobs
          ELSE IF id \notin DOMAIN jobs
            THEN resp' = Reply("updateJob", u, 200, NoId, None) /\ UNCHANGED jobs
            ELSE LET job == jobPatched(jobs[id], b)
                 IN /\ jobs' = [jobs EXCEPT ![id] = job]
                    /\ resp' = Reply("updateJob", u, 200, id, None)

\* deleteJob up to its first await: the role check, then Job.findById(id)
deleteJob_findById(u, id, cap) ==
  /\ UNCHANGED browser
  /\ UNCHANGED <<users, jobs, applications, files, now, jobSeq, appSeq, fileSeq, mail>>
  /\ IF jobWriteForbidden(users[u], id)
       THEN resp' = Reply("deleteJob", u, 403, id, None) /\ UNCHANGED reqs
       ELSE IF id \notin DOMAIN jobs
         THEN resp' = Reply("deleteJob", u, 500, id, None) /\ UNCHANGED reqs
         ELSE \E s \in FreeSlot(cap) :
                /\ Park(s, [op |-> "deleteJob", caller |-> u, id |-> id])
                /\ resp' = NoResp

\* the collection without the document id
Without(coll, id) == [k \in DOMAIN coll \ {id} |-> coll[k]]

\* deleteJob after Job.findById: job.deleteOne() and the 200 answer
deleteJob_deleteOne(s) ==
  /\ UNCHANGED browser
  /\ reqs[s].op = "deleteJob"
  /\ UNCHANGED <<users, applications, files, now, jobSeq, appSeq, fileSeq, mail>>
  /\ Finish(s)
  /\ jobs' = Without(jobs, reqs[s].id)
  /\ resp' = Reply("deleteJob", reqs[s].caller, 200, reqs[s].id, None)

\* ---------------------------------------------------------------- file store (Cloudinary)
\* the reference upload_stream answers for the object with public_id f
Uploaded(f) == [public_id |-> f, url |-> Some(f)]
\* a resume object as a request body can spell it: with or without its url
ResumeRefs == [public_id : FileIds, url : Opt(FileIds)]

\* ---------------------------------------------------------------- applicationController.js
ApplicationBodies ==
  [name : Opt({"Alice"}), email : Opt(Emails), coverLetter : Opt({"Dear Sir"}),
   phone : Opt(Phones), address : Opt({"1 Main St"}), jobId : Opt(JobIds)]

\* !name || !email || !coverLetter || !phone || !address || !jobId
missingFields(b) ==
  \/ ~Has(b.name) \/ ~Has(b.email) \/ ~Has(b.coverLetter)
  \/ ~Has(b.phone) \/ ~Has(b.address) \/ ~Has(b.jobId)

\* !applicant.resume || !applicant.resume.url
noProfileResume_ignoresUrl(applicant) == ~Has(applicant.resume)
noProfileResume(applicant) == ~Has(applicant.resume) \/ ~Has(Val(applicant.resume).url)

\* the checks postApplication makes before it looks the job up, in the order of the code:
\* the role, the required fields, then (after User.findById) the profile resume
applicationRefusal_fieldsFirst(user, b) ==
  IF missingFields(b)
    THEN Some([status |-> 400, message |-> "Please fill all required fields."])
    ELSE IF user.role = Employer
      THEN Some([status |-> 403, message |-> "Employer is not allowed to apply for jobs."])
      ELSE IF noProfileResume(user)
        THEN Some([status |-> 400,
                   message |-> "Please upload your resume to your profile before applying."])
        ELSE None
applicationRefusal(user, b) ==
  IF user.role = Employer
    THEN Some([status |-> 403, message |-> "Employer is not allowed to apply for jobs."])
    ELSE IF missingFields(b)
      THEN Some([status |-> 400, message |-> "Please fill all required fields."])
      ELSE IF noProfileResume(user)
        THEN Some([status |-> 400,
                   message |-> "Please upload your resume to your profile before applying."])
        ELSE None

\* postApplication up to Job.findById: the checks, User.findById(req.user._id) between them
postApplication_findUser(u, b, cap) ==
  /\ UNCHANGED browser
  /\ UNCHANGED <<users, jobs, applications, files, now, jobSeq, appSeq, fileSeq, mail>>
  /\ LET refusal == applicationRefusal(users[u], b)
     IN IF Has(refusal)
          THEN /\ resp' = Refuse("postApplication", u, Val(refusal).status, NoId,
                                    Val(refusal).message)
               /\ UNCHANGED reqs
          ELSE \E s \in FreeSlot(cap) :
                 /\ Park(s, [op |-> "postApplication", pc |-> "findJob", caller |-> u,
                             email |-> Val(b.email), jobId |-> Val(b.jobId),
                             resume |-> Val(users[u].resume), employerID |-> NoId])
                 /\ resp' = NoResp

\* postApplication after User.findById: Job.findById(jobId)
postApplication_findJob(s) ==
  /\ UNCHANGED browser
  /\ reqs[s].op = "postApplication" /\ reqs[s].pc = "findJob"
  /\ UNCHANGED <<users, jobs, applications, files, now, jobSeq, appSeq, fileSeq, mail>>
  /\ IF reqs[s].jobId \notin DOMAIN jobs
       THEN /\ Finish(s)
            /\ resp' = Refuse("postApplication", reqs[s].caller, 404, NoId, "Job not found.")
       ELSE /\ Park(s, [reqs[s] EXCEPT !.pc = "create",
                                       !.employerID = jobs[reqs[s].jobId].postedBy])
            /\ resp' = NoResp

\* the document postApplication hands to Application.create
applicationDoc_currentResume(ctx, id) ==
  [_id |-> id, email |-> ctx.email, applicantID |-> ctx.caller, employerID |-> ctx.employerID,
   jobId |-> ctx.jobId, resume |-> OrElse(users[ctx.caller].resume, ctx.resume)]
applicationDoc(ctx, id) ==
  [_id |-> id, email |-> ctx.email, applicantID |-> ctx.caller, employerID |-> ctx.employerID,
   jobId |-> ctx.jobId, resume |-> ctx.resume]

\* Application.create(doc): the collection with the new document under its fresh _id;
\* nothing in the handler looks for an earlier application of the same applicant and job
Application_create_oncePerJob(apps, app) ==
  IF \E a \in DOMAIN apps : apps[a].applicantID = app.applicantID /\ apps[a].jobId = app.jobId
    THEN apps
    ELSE apps @@ (app._id :> app)
Application_create(apps, app) == apps @@ (app._id :> app)

\* sendEmail({ to: email, ... }): the message handed to the transporter
Message(app) == [to |-> app.email, app |-> app._id]

\* postApplication after Job.findById: Application.create, the sendEmail call (its
\* promise is not awaited) and the 201 answer
postApplication_create(s) ==
  /\ UNCHANGED browser
  /\ reqs[s].op = "postApplication" /\ reqs[s].pc = "create"
  /\ appSeq < MaxApps
  /\ UNCHANGED <<users, jobs, files, now, jobSeq, fileSeq>>
  /\ LET id == appSeq + 1
         app == applicationDoc(reqs[s], id)
     IN /\ applications' = Application_create(applications, app)
        /\ appSeq' = id
        /\ mail' = mail \cup {Message(app)}
        /\ Finish(s)
        /\ resp' = Reply("postApplication", reqs[s].caller, 201, id, None)

\* .catch((err) => console.error(...)): what a rejected sendEmail promise does to the store
afterEmailFailure_rollsBack(apps, m) == Without(apps, m.app)
afterEmailFailure(apps, m) == apps

\* transporter.sendMail resolves
sendEmail_delivered(m) ==
  /\ UNCHANGED browser
  /\ m \in mail
  /\ mail' = mail \ {m}
  /\ resp' = NoResp
  /\ UNCHANGED <<users, jobs, applications, files, now, jobSeq, appSeq, fileSeq, reqs>>

\* transporter.sendMail rejects: the .catch handler logs the error
sendEmail_failed(m) ==
  /\ UNCHANGED browser
  /\ m \in mail
  /\ mail' = mail \ {m}
  /\ applications' = afterEmailFailure(applications, m)
  /\ resp' = Logged("Application confirmation email failed:", m.app)
  /\ UNCHANGED <<users, jobs, files, now, jobSeq, appSeq, fileSeq, reqs>>

\* Application.find({ applicantID: _id })
findByApplicant_all(apps, u) == {apps[a] : a \in DOMAIN apps}
findByApplicant(apps, u) == {apps[a] : a \in {x \in DOMAIN apps : apps[x].applicantID = u}}

\* jobseekerGetAllApplications: an Employer's thrown error is caught and answered 400
jobseekerGetAllApplications(u) ==
  /\ UNCHANGED browser
  /\ UNCHANGED <<users, jobs, applications, files, now, jobSeq, appSeq, fileSeq, reqs, mail>>
  /\ IF users[u].role = Employer
       THEN resp' = Reply("jobseekerGetAllApplications", u, 400, NoId, None)
       ELSE resp' = Reply("jobseekerGetAllApplications", u, 200, NoId,
                          findByApplicant(applications, u))

\* Application.findByIdAndDelete(id), called for req.user u: the document the filter
\* selects; the filter is the id alone and the caller is no part of it
findByIdAndDelete_ownOnly(apps, u, id) ==
  IF id \in DOMAIN apps /\ apps[id].applicantID = u THEN Some(apps[id]) ELSE None
findByIdAndDelete(apps, u, id) ==
  IF id \in DOMAIN apps THEN Some(apps[id]) ELSE None

\* jobseekerDeleteApplication: Application.findByIdAndDelete(id)
jobseekerDeleteApplication(u, id) ==
  /\ UNCHANGED browser
  /\ UNCHANGED <<users, jobs, files, now, jobSeq, appSeq, fileSeq, reqs, mail>>
  /\ IF users[u].role = Employer
       THEN resp' = Reply("jobseekerDeleteApplication", u, 403, id, None)
            /\ UNCHANGED applications
       ELSE IF ~Has(findByIdAndDelete(applications, u, id))
         THEN resp' = Reply("jobseekerDeleteApplication", u, 404, id, None)
              /\ UNCHANGED applications
         ELSE /\ applications' = Without(applications, id)
              /\ resp' = Reply("jobseekerDeleteApplication", u, 200, id, None)

\* ---------------------------------------------------------------- authController.js
\* req.user.resume && req.user.resume.public_id
hasOldResume(user) == Has(user.resume)

\* uploadProfileResume after the old object is out of the way: upload_stream stores the new
\* object, or rejects and the handler answers 500
upload_stream(s, u, ok) ==
  IF ok
    THEN /\ fileSeq < MaxFiles
         /\ fileSeq' = fileSeq + 1
         /\ files' = files \cup {fileSeq + 1}
         /\ Park(s, [op |-> "uploadProfileResume", pc |-> "save", caller |-> u,
                     uploadedFile |-> Uploaded(fileSeq + 1)])
         /\ resp' = NoResp
    ELSE /\ reqs' = [reqs EXCEPT ![s] = Idle]
         /\ resp' = Reply("uploadProfileResume", u, 500, NoId, None)
         /\ UNCHANGED <<files, fileSeq>>

\* uploadProfileResume up to its first await: the file check, then
\* cloudinary.uploader.destroy of the old object named by req.user.resume
uploadProfileResume_destroy(u, hasFile, cap) ==
  /\ UNCHANGED browser
  /\ UNCHANGED <<users, jobs, applications, now, jobSeq, appSeq, mail>>
  /\ IF ~hasFile
       THEN /\ resp' = Reply("uploadProfileResume", u, 400, NoId, None)
            /\ UNCHANGED <<files, fileSeq, reqs>>
       ELSE /\ hasOldResume(users[u])
            /\ \E s \in FreeSlot(cap) :
                 /\ files' = files \ {Val(users[u].resume).public_id}
                 /\ Park(s, [op |-> "uploadProfileResume", pc |-> "upload", caller |-> u])
                 /\ resp' = NoResp
                 /\ UNCHANGED fileSeq

\* uploadProfileResume of a user without a resume: its first await is upload_stream
uploadProfileResume_first(u, ok, cap) ==
  /\ UNCHANGED browser
  /\ ~hasOldResume(users[u])
  /\ UNCHANGED <<users, jobs, applications, now, jobSeq, appSeq, mail>>
  /\ \E s \in FreeSlot(cap) : upload_stream(s, u, ok)

\* uploadProfileResume after destroy: upload_stream
uploadProfileResume_upload(s, ok) ==
  /\ UNCHANGED browser
  /\ reqs[s].op = "uploadProfileResume" /\ reqs[s].pc = "upload"
  /\ UNCHANGED <<users, jobs, applications, now, jobSeq, appSeq, mail>>
  /\ upload_stream(s, reqs[s].caller, ok)

\* the application collection once the new reference is saved: the handler writes the
\* User document alone, the applications of the user keep the reference they were given
afterResumeSaved_rewritesApplications(apps, u, resume) ==
  [a \in DOMAIN apps |->
     IF apps[a].applicantID = u THEN [apps[a] EXCEPT !.resume = resume] ELSE apps[a]]
afterResumeSaved(apps, u, resume) == apps

\* uploadProfileResume after upload_stream: User.findByIdAndUpdate(req.user._id, { resume })
uploadProfileResume_save(s) ==
  /\ UNCHANGED browser
  /\ reqs[s].op = "uploadProfileResume" /\ reqs[s].pc = "save"
  /\ UNCHANGED <<jobs, files, now, jobSeq, appSeq, fileSeq, mail>>
  /\ LET u == reqs[s].caller
         updatedUser == [users[u] EXCEPT !.resume = Some(reqs[s].uploadedFile)]
     IN /\ users' = [users EXCEPT ![u] = updatedUser]
        /\ applications' = afterResumeSaved(applications, u, reqs[s].uploadedFile)
        /\ Finish(s)
        /\ resp' = Reply("uploadProfileResume", u, 200, u, Some(withoutPassword(updatedUser)))

\* bodies of PATCH /user/update/:id: one path of the user document
NoUpdates ==
  [name |-> None, email |-> None, password |-> None, role |-> None, skillset |-> None,
   resume |-> None]
UserUpdates ==
  {NoUpdates}
  \cup {[NoUpdates EXCEPT !.name = Some(n)] : n \in Names}
  \cup {[NoUpdates EXCEPT !.email = Some(e)] : e \in Emails \cup {BadEmail}}
  \cup {[NoUpdates EXCEPT !.password = Some(p)] : p \in Passwords}
  \cup {[NoUpdates EXCEPT !.role = Some(r)] : r \in Roles \cup {"Admin"}}
  \cup {[NoUpdates EXCEPT !.skillset = Some(k)] : k \in Skillsets}
  \cup {[NoUpdates EXCEPT !.resume = Some(r)] : r \in Opt(ResumeRefs)}

\* update validators (runValidators: true) over the paths $set names
userUpdatesValid(b) ==
  /\ Has(b.name) => NameLen(Val(b.name)) >= 3 /\ NameLen(Val(b.name)) <= 30
  /\ Has(b.email) => isEmail(Val(b.email))
  /\ Has(b.password) => PasswordLen(Val(b.password)) >= 8
  /\ Has(b.role) => Val(b.role) \in Roles

\* the document after { $set: updates }; no pre('save') hook runs, a password is stored as sent
userPatched(user, b) ==
  [_id |-> user._id,
   name |-> OrElse(b.name, user.name),
   email |-> OrElse(b.email, user.email),
   phone |-> user.phone,
   password |-> IF Has(b.password) THEN [plain |-> Val(b.password)] ELSE user.password,
   role |-> OrElse(b.role, user.role),
   skillset |-> OrElse(b.skillset, user.skillset),
   resume |-> OrElse(b.resume, user.resume)]

\* updateUser: User.findByIdAndUpdate(req.params.id, { $set: req.body })
updateUser(u, id, b) ==
  /\ UNCHANGED browser
  /\ UNCHANGED <<jobs, applications, files, now, jobSeq, appSeq, fileSeq, reqs, mail>>
  /\ IF ~userUpdatesValid(b)
       THEN resp' = Reply("updateUser", u, 500, id, None) /\ UNCHANGED users
       ELSE IF id \notin DOMAIN users
         THEN resp' = Reply("updateUser", u, 404, id, None) /\ UNCHANGED users
         ELSE IF Has(b.email) /\ emailTaken(Val(b.email), id)
           THEN resp' = Reply("updateUser", u, 500, id, None) /\ UNCHANGED users
             ELSE /\ users' = [users EXCEPT ![id] = userPatched(users[id], b)]
                /\ resp' = Reply("updateUser", u, 200, id,
                                 Some(withoutPassword(userPatched(users[id], b))))

\* ---------------------------------------------------------------- AuthContext.jsx, api/auth.js
\* a JWT names the user it was signed for
Tokens == {[id |-> u] : u \in UserIds}

\* useEffect(fetchUser, [token]) after a render that changed token from `old` to `new`:
\* with a token it awaits getCurrentUser(token), without one it only ends the loading
fetchUser(old, new, calls) == IF new # old /\ Has(new) THEN calls \cup new ELSE calls
loadingAfter(old, new, loading) == IF new # old /\ ~Has(new) THEN FALSE ELSE loading

\* the AuthProvider of a freshly loaded page: useState(localStorage.getItem('token')),
\* loading until the first fetchUser is done; the promises of the page before are gone
AuthProvider_mount ==
  /\ UNCHANGED <<server, localStorage>>
  /\ authContext' = [user |-> None, token |-> localStorage, loading |-> Has(localStorage)]
  /\ awaiting' = [logoutUser |-> 0, getCurrentUser |-> localStorage, settled |-> "none"]

\* login(userData, authToken) of the context, called with the body of a login answer
AuthContext_login(userData, authToken) ==
  /\ UNCHANGED server
  /\ localStorage' = Some(authToken)
  /\ authContext' = [authContext EXCEPT !.token = Some(authToken), !.user = Some(userData)]
  /\ awaiting' = [awaiting EXCEPT
                    !.getCurrentUser = fetchUser(authContext.token, Some(authToken), @)]

\* fetchUser after getCurrentUser resolved: setUser(data.user), setLoading(false)
fetchUser_resolved(t) ==
  /\ t \in awaiting.getCurrentUser
  /\ UNCHANGED <<server, localStorage>>
  /\ awaiting' = [awaiting EXCEPT !.getCurrentUser = @ \ {t}]
  /\ authContext' = [authContext EXCEPT !.user = Some(t.id), !.loading = FALSE]

\* fetchUser after getCurrentUser rejected: the catch block clears the session
fetchUser_rejected(t) ==
  /\ t \in awaiting.getCurrentUser
  /\ UNCHANGED server
  /\ awaiting' = [awaiting EXCEPT !.getCurrentUser = @ \ {t}]
  /\ localStorage' = None
  /\ authContext' = [user |-> None, token |-> None, loading |-> FALSE]

\* logout() up to its await: the logoutUser request is sent
AuthContext_logout ==
  /\ awaiting.logoutUser < MaxInFlight
  /\ UNCHANGED <<server, authContext, localStorage>>
  /\ awaiting' = [awaiting EXCEPT !.logoutUser = @ + 1]

\* what logout() leaves of the session once logoutUser has settled, fulfilled (ok) or
\* rejected: the three statements after the try block run in both cases
afterLogoutUser_insideTry(session, ok) ==
  IF ok THEN [localStorage |-> None, token |-> None, user |-> None] ELSE session
afterLogoutUser(session, ok) == [localStorage |-> None, token |-> None, user |-> None]

\* logout() after its await: the empty catch, removeItem('token'), setToken(null),
\* setUser(null)
logout_settled(ok) ==
  /\ awaiting.logoutUser > 0
  /\ UNCHANGED server
  /\ LET session == [localStorage |-> localStorage, token |-> authContext.token,
                     user |-> authContext.user]
         left == afterLogoutUser(session, ok)
     IN /\ localStorage' = left.localStorage
        /\ authContext' = [user |-> left.user, token |-> left.token,
                           loading |-> loadingAfter(authContext.token, left.token,
                                                    authContext.loading)]
        /\ awaiting' = [logoutUser |-> awaiting.logoutUser - 1,
                        getCurrentUser |-> fetchUser(authContext.token, left.token,
                                                     awaiting.getCurrentUser),
                        settled |-> IF ok THEN "fulfilled" ELSE "rejected"]

\* ---------------------------------------------------------------- specifications
\* registration forms: every field filled in validly, or one defect
SignUp(r, e) ==
  [name |-> Some("Alice"), email |-> Some(e), phone |-> Some(5550100),
   password |-> Some("longenough"), role |-> Some(r),
   skillset |-> IF r = JobSeeker THEN Some(<<"js">>) ELSE None]
SignUps ==
  {SignUp(r, e) : r \in Roles, e \in Emails}
  \cup {[SignUp(JobSeeker, 1) EXCEPT !.skillset = k] : k \in {None, Some(<<>>)}}
  \cup {[SignUp(Employer, 1) EXCEPT !.skillset = Some(k)] : k \in Skillsets}
  \cup {[SignUp(Employer, 1) EXCEPT !.role = r] : r \in {None, Some("Admin")}}
  \cup {[SignUp(Employer, 1) EXCEPT !.name = n] : n \in {None, Some("Al")}}
  \cup {[SignUp(Employer, 1) EXCEPT !.email = e] : e \in {None, Some(BadEmail)}}
  \cup {[SignUp(Employer, 1) EXCEPT !.password = w] : w \in {None, Some("short")}}
  \cup {[SignUp(Employer, 1) EXCEPT !.phone = None]}

JobReads ==
  \/ \E u \in Callers : getMyJobs(u)
  \/ \E u \in Callers, id \in JobIds : getSingleJob(u, id)

JobRequests(cap, posts, patches) ==
  \/ \E u \in Callers, b \in posts : jobSeq < MaxJobs /\ postJob(u, b)
  \/ \E u \in Callers, id \in JobIds : updateJob_findById(u, id, cap)
  \/ \E s \in InFlight : \E b \in patches : updateJob_findByIdAndUpdate(s, b)
  \/ \E u \in Callers, id \in JobIds : deleteJob_findById(u, id, cap)
  \/ \E s \in InFlight : deleteJob_deleteOne(s)

ResumeRequests(cap) ==
  \/ \E u \in Callers, hasFile \in BOOLEAN : uploadProfileResume_destroy(u, hasFile, cap)
  \/ \E u \in Callers, ok \in BOOLEAN : uploadProfileResume_first(u, ok, cap)
  \/ \E s \in InFlight, ok \in BOOLEAN : uploadProfileResume_upload(s, ok)
  \/ \E s \in InFlight : uploadProfileResume_save(s)

ApplicationRequests(cap, forms) ==
  \/ \E u \in Callers, b \in forms : postApplication_findUser(u, b, cap)
  \/ \E s \in InFlight : postApplication_findJob(s)
  \/ \E s \in InFlight : postApplication_create(s)
  \/ \E m \in mail : sendEmail_delivered(m)
  \/ \E m \in mail : sendEmail_failed(m)
  \/ \E u \in Callers : jobseekerGetAllApplications(u)
  \/ \E u \in Callers, id \in AppIds : jobseekerDeleteApplication(u, id)

\* the job board: registration, the clock and the job writes, one request at a time
NextJobs ==
  \/ Tick
  \/ \E b \in SignUps : register(b)
  \/ JobRequests(1, PostJobBodies, PatchJobBodies)

SpecJobs == Init /\ [][NextJobs]_vars

\* registration forms of newcomers: valid, with an address nobody has used
FreshSignUps == {SignUp(r, e) : r \in Roles, e \in Emails \cap {Cardinality(DOMAIN users) + 1}}

\* job forms that leave jobPostedOn and expired to their defaults, patches of title and postedBy
OwnerPosts == JobForms({None}, {None})
OwnerPatches == {b \in PatchJobBodies : Present(b) \subseteq {"title", "postedBy"}}

\* who may write a job: registration and the job writes, the clock standing still
NextAccess ==
  \/ \E b \in FreshSignUps : register(b)
  \/ JobRequests(1, OwnerPosts, OwnerPatches)

SpecAccess == Init /\ [][NextAccess]_vars

\* application forms: every field filled in, or one of them left out
PlainApplication ==
  [name |-> Some("Alice"), email |-> Some(1), coverLetter |-> Some("Dear Sir"),
   phone |-> Some(5550100), address |-> Some("1 Main St"), jobId |-> Some(1)]
ApplyForms ==
  {PlainApplication, [PlainApplication EXCEPT !.coverLetter = None],
   [PlainApplication EXCEPT !.jobId = None]}

\* profile patches that take the resume away, or leave a reference without its url
ResumeCleared == [NoUpdates EXCEPT !.resume = Some(None)]
ResumeWithoutUrl == [NoUpdates EXCEPT !.resume = Some(Some([public_id |-> 1, url |-> None]))]
ProfilePatches == {ResumeCleared, ResumeWithoutUrl}

\* a fixed cast signing up in turn: an applicant, a recruiter, a second applicant
CastRole(e) == IF e = 2 THEN Employer ELSE JobSeeker
Cast(n) ==
  {SignUp(CastRole(e), e) : e \in Emails \cap {Cardinality(DOMAIN users) + 1} \cap 1..n}

\* the three steps of a postApplication request
Submit(cap, forms) ==
  \/ \E u \in Callers, b \in forms : postApplication_findUser(u, b, cap)
  \/ \E s \in InFlight : postApplication_findJob(s)
  \/ \E s \in InFlight : postApplication_create(s)

\* applying: an applicant and a recruiter, one job, first uploads and profile patches, the
\* application forms and the fate of the confirmation emails
NextApply ==
  \/ \E b \in Cast(2) : register(b)
  \/ \E u \in Callers : jobSeq < MaxJobs /\ postJob(u, PlainForm)
  \/ \E u \in Callers : uploadProfileResume_first(u, TRUE, 1)
  \/ \E s \in InFlight : uploadProfileResume_save(s)
  \/ \E u \in Callers, b \in ProfilePatches : updateUser(u, u, b)
  \/ Submit(1, ApplyForms)
  \/ \E m \in mail : sendEmail_delivered(m)
  \/ \E m \in mail : sendEmail_failed(m)

SpecApply == Init /\ [][NextApply]_vars

\* what later requests do to a submitted application: uploads, profile and job patches
NextSnapshot ==
  \/ \E b \in Cast(2) : register(b)
  \/ \E u \in Callers : jobSeq < MaxJobs /\ postJob(u, PlainForm)
  \/ \E u \in Callers, id \in JobIds : updateJob_findById(u, id, 1)
  \/ \E s \in InFlight :
       updateJob_findByIdAndUpdate(s, [NoPatch EXCEPT !.title = Some("Dev")])
  \/ ResumeRequests(1)
  \/ \E u \in Callers : updateUser(u, u, ResumeWithoutUrl)
  \/ Submit(1, {PlainApplication})

SpecSnapshot == Init /\ [][NextSnapshot]_vars

\* listing: two applicants and a recruiter, first uploads, submissions, listings, deletions
NextListing ==
  \/ \E b \in Cast(3) : register(b)
  \/ \E u \in Callers : jobSeq < MaxJobs /\ postJob(u, PlainForm)
  \/ \E u \in Callers : uploadProfileResume_first(u, TRUE, 1)
  \/ \E s \in InFlight : uploadProfileResume_save(s)
  \/ Submit(1, {PlainApplication})
  \/ \E u \in Callers : jobseekerGetAllApplications(u)
  \/ \E u \in Callers, id \in AppIds : jobseekerDeleteApplication(u, id)

SpecListing == Init /\ [][NextListing]_vars

\* signing up: every registration form, valid or with one defect
NextRegister == \E b \in SignUps : register(b)

SpecRegister == Init /\ [][NextRegister]_vars

\* profile patches of the account paths: password, role, skillset
AccountPatches == {b \in UserUpdates : ~Has(b.name) /\ ~Has(b.email) /\ ~Has(b.resume)}

\* accounts: an applicant and a recruiter sign up, log in, read /me, patch any profile and
\* upload a resume
NextProfile ==
  \/ \E b \in Cast(2) : register(b)
  \/ \E b \in LoginBodies : login(b)
  \/ \E u \in Callers : getMe(u)
  \/ \E u \in Callers, id \in UserIds, b \in AccountPatches : updateUser(u, id, b)
  \/ \E u \in Callers : uploadProfileResume_first(u, TRUE, 1)
  \/ \E s \in InFlight : uploadProfileResume_save(s)

SpecProfile == Init /\ [][NextProfile]_vars

\* the board: the recruiter posts jobs, some flagged expired by the form, and anybody
\* lists the board, two listings at a time
NextBoard ==
  \/ \E b \in Cast(2) : register(b)
  \/ \E u \in Callers, b \in {PlainForm, [PlainForm EXCEPT !.expired = Some(TRUE)]} :
       users[u].role = Employer /\ jobSeq < MaxListed /\ postJob(u, b)
  \/ \E p, l \in QueryValues : getAllJobs_count(p, l, 2)
  \/ \E s \in InFlight : getAllJobs_find(s)

SpecBoard == Init /\ [][NextBoard]_vars

\* resumes: an applicant and a recruiter upload and re-upload, two uploads at a time
NextResume ==
  \/ \E b \in Cast(2) : register(b)
  \/ ResumeRequests(2)

SpecResume == Init /\ [][NextResume]_vars

\* refusals: an applicant and a recruiter try every gated request, on ids in and out of
\* the stores
NextErrors ==
  \/ \E b \in Cast(2) : register(b)
  \/ JobRequests(1, {PlainForm}, {[NoPatch EXCEPT !.title = Some("Dev")]})
  \/ JobReads
  \/ \E u \in Callers : postApplication_findUser(u, PlainApplication, 1)
  \/ \E u \in Callers : jobseekerGetAllApplications(u)
  \/ \E u \in Callers, id \in AppIds : jobseekerDeleteApplication(u, id)
  \/ \E u \in Callers, id \in UserIds : updateUser(u, id, NoUpdates)

SpecErrors == Init /\ [][NextErrors]_vars

\* forms: every registration form and every job form, valid or with one defect
NextForms ==
  \/ \E b \in SignUps : register(b)
  \/ \E u \in Callers, b \in PostJobBodies : jobSeq < MaxJobs /\ postJob(u, b)

SpecForms == Init /\ [][NextForms]_vars

\* records: an applicant and a recruiter; the recruiter posts a job and deletes it; the
\* applicant uploads and re-uploads a resume; both try to apply and to delete
\* applications; both patch the applicant's profile
NextRecords ==
  \/ \E b \in Cast(2) : register(b)
  \/ \E u \in Callers : users[u].role = Employer /\ jobSeq < MaxJobs /\ postJob(u, PlainForm)
  \/ \E u \in Callers, id \in JobIds : deleteJob_findById(u, id, 1)
  \/ \E s \in InFlight : deleteJob_deleteOne(s)
  \/ \E u \in Callers : users[u].role = JobSeeker /\ uploadProfileResume_first(u, TRUE, 1)
  \/ \E u \in Callers : users[u].role = JobSeeker /\ uploadProfileResume_destroy(u, TRUE, 1)
  \/ \E s \in InFlight : uploadProfileResume_upload(s, TRUE)
  \/ \E s \in InFlight : uploadProfileResume_save(s)
  \/ \E u, id \in Callers :
       users[id].role = JobSeeker /\ updateUser(u, id, [NoUpdates EXCEPT !.name = Some("Bob")])
  \/ Submit(1, {PlainApplication})
  \/ \E u \in Callers, id \in AppIds : jobseekerDeleteApplication(u, id)

SpecRecords == Init /\ [][NextRecords]_vars

\* references: the recruiter posts a job, flagged expired by the form or not, and deletes
\* it while the applicant, who uploads and re-uploads a resume, applies for it
NextReferences ==
  \/ \E b \in Cast(2) : register(b)
  \/ \E u \in Callers, b \in {PlainForm, [PlainForm EXCEPT !.expired = Some(TRUE)]} :
       users[u].role = Employer /\ jobSeq < MaxJobs /\ postJob(u, b)
  \/ \E u \in Callers, id \in JobIds : deleteJob_findById(u, id, 2)
  \/ \E s \in InFlight : deleteJob_deleteOne(s)
  \/ \E u \in Callers : users[u].role = JobSeeker /\ uploadProfileResume_first(u, TRUE, 1)
  \/ \E u \in Callers : users[u].role = JobSeeker /\ uploadProfileResume_destroy(u, TRUE, 1)
  \/ \E s \in InFlight : uploadProfileResume_upload(s, TRUE)
  \/ \E s \in InFlight : uploadProfileResume_save(s)
  \/ Submit(1, {PlainApplication})

SpecReferences == Init /\ [][NextReferences]_vars

\* the session in the browser: logging in, reloading the page, logging out
NextSession ==
  \/ AuthProvider_mount
  \/ \E t \in Tokens : AuthContext_login(t.id, t)
  \/ \E t \in Tokens : fetchUser_resolved(t)
  \/ \E t \in Tokens : fetchUser_rejected(t)
  \/ AuthContext_logout
  \/ \E ok \in BOOLEAN : logout_settled(ok)

SpecSession == Init /\ [][NextSession]_vars

\* a race of job writes: the recruiter posts a job and updates it, with a title or an
\* empty one, and deletes it, two requests at a time
NextRace ==
  \/ \E b \in Cast(2) : register(b)
  \/ \E u \in Callers : jobSeq < MaxJobs /\ postJob(u, PlainForm)
  \/ \E u \in Callers, id \in JobIds : updateJob_findById(u, id, 2)
  \/ \E s \in InFlight, t \in {"Dev", ""} :
       updateJob_findByIdAndUpdate(s, [NoPatch EXCEPT !.title = Some(t)])
  \/ \E u \in Callers, id \in JobIds : deleteJob_findById(u, id, 2)
  \/ \E s \in InFlight : deleteJob_deleteOne(s)

SpecRace == Init /\ [][NextRace]_vars

\* ---------------------------------------------------------------- properties
RoleOf(u) == users[u].role

\* C1: a postJob request of an authenticated Job Seeker is rejected: it is never
\* answered 201 with a new job in the store.
C1_JobSeekerCannotPost ==
  ~(resp.op = "postJob" /\ RoleOf(resp.caller) = JobSeeker
      /\ resp.status = 201 /\ resp.id \in DOMAIN jobs)

\* C2: after every successful postJob the stored job's postedBy is the caller's id,
\* whatever postedBy the body carried.
C2_PostedByIsCaller ==
  (resp.op = "postJob" /\ resp.status = 201) => jobs[resp.id].postedBy = resp.caller
C2_Witness ==
  /\ resp.op = "postJob" /\ resp.status = 201
  /\ \E v \in DOMAIN users : v # resp.caller
  /\ jobs[resp.id].postedBy = resp.caller

\* C3: right after postJob creates a job, its stored expired flag equals
\* (now > jobPostedOn + timeLeftToExpire days).
C3_ExpiredMatchesRuleAfterPost ==
  (resp.op = "postJob" /\ resp.status = 201) =>
     (jobs[resp.id].expired <=> pastExpiry(jobs[resp.id]))

\* C4: right after a successful updateJob the stored expired flag equals
\* (now > jobPostedOn + timeLeftToExpire days).
C4_ExpiredMatchesRuleAfterUpdate ==
  (resp.op = "updateJob" /\ resp.status = 200 /\ resp.id \in DOMAIN jobs) =>
     (jobs[resp.id].expired <=> pastExpiry(jobs[resp.id]))

\* C5: updateJob and deleteJob are gated by role only: a Job Seeker is answered 403 and
\* the job store stays as it was; an Employer is never answered 403, whoever posted the
\* job, and a deleteJob answered 200 leaves no job with that id.
C5_RoleOnlyGate ==
  [][resp'.op \in {"updateJob", "deleteJob"} =>
       IF RoleOf(resp'.caller) = JobSeeker
         THEN resp'.status = 403 /\ jobs' = jobs
         ELSE /\ resp'.status # 403
              /\ (resp'.op = "deleteJob" /\ resp'.status = 200) => resp'.id \notin DOMAIN jobs']_vars
C5_Witness ==
  /\ resp.op = "updateJob" /\ resp.status = 200 /\ resp.id \in DOMAIN jobs
  /\ RoleOf(resp.caller) = Employer
  /\ jobs[resp.id].postedBy # resp.caller
  /\ jobs[resp.id].postedBy \in DOMAIN users

\* C6: a postApplication request of an Employer is answered 403, adds no application and
\* hands no email to the transporter, whatever the body holds; no request of an Employer
\* gets past the checks.
C6_EmployerCannotApply ==
  [][/\ (resp'.op = "postApplication" /\ RoleOf(resp'.caller) = Employer) =>
          (resp'.status = 403 /\ applications' = applications /\ mail' = mail)
     /\ \A s \in Slots :
          reqs'[s].op = "postApplication" => RoleOf(reqs'[s].caller) # Employer]_vars
C6_Witness ==
  /\ resp.op = "postApplication" /\ resp.status = 403
  /\ RoleOf(resp.caller) = Employer
  /\ Has(users[resp.caller].resume)
  /\ DOMAIN jobs # {}

\* C7: while a Job Seeker's profile has no resume, or a resume without url, a
\* postApplication request they start is answered 400 at once and adds no application,
\* whether or not the job exists: only a request already past the checks may go on.
C7_NoResumeReference(u) ==
  users[u].resume = None \/ \A r \in users[u].resume : r.url = None
C7_Underway(u) ==
  \E s \in Slots : reqs[s].op = "postApplication" /\ reqs[s].caller = u
C7_NoResumeRejected ==
  [][\A u \in DOMAIN users :
       (RoleOf(u) = JobSeeker /\ C7_NoResumeReference(u) /\ ~C7_Underway(u)) =>
         /\ \A s \in Slots : ~(reqs'[s].op = "postApplication" /\ reqs'[s].caller = u)
         /\ (resp'.op = "postApplication" /\ resp'.caller = u) =>
              (resp'.status = 400 /\ applications' = applications)]_vars
C7_Witness ==
  /\ resp.op = "postApplication" /\ resp.status = 400
  /\ resp.message = "Please upload your resume to your profile before applying."
  /\ RoleOf(resp.caller) = JobSeeker
  /\ users[resp.caller].resume # None
  /\ DOMAIN jobs # {}

C11_Inverse(b) ==
  \/ b.role = {JobSeeker} /\ (b.skillset = {} \/ b.skillset = {<<>>})
  \/ b.role = {Employer} /\ b.skillset # {} /\ b.skillset # {<<>>}
C11_RoleSkillsetRule ==
  [][\A b \in SignUps : register(b) =>
       /\ C11_Inverse(b) => (resp'.status = 400 /\ users' = users)
       /\ \A u \in DOMAIN users' \ DOMAIN users :
            /\ users'[u].role = JobSeeker => users'[u].skillset # <<>>
            /\ users'[u].role = Employer => users'[u].skillset = <<>>]_vars
C11_Witness ==
  /\ resp.op = "register" /\ resp.status = 400
  /\ resp.message = "Employers should not provide a skillset."
  /\ \E u, v \in DOMAIN users : users[u].role = JobSeeker /\ users[v].role = Employer

\* C12: no step changes the role of a stored user: each user keeps the role it was
\* registered with.
C12_RoleFixed ==
  [][\A u \in DOMAIN users : users'[u].role = users[u].role]_vars

\* C13: no body of register, login, /me, updateUser or uploadProfileResume carries a
\* password field.
C13_PasswordNotSerialized ==
  resp.op \in {"register", "login", "me", "updateUser", "uploadProfileResume"} =>
     \A doc \in resp.out : "password" \notin DOMAIN doc

\* C14: a listing whose count still equals the number of stored jobs N holds
\* min(limit, max(0, N - (page-1)*limit)) jobs and totalPages = ceil(N / limit); a page
\* or limit that is missing, zero or not a number counts as 1 and 10; and two listings
\* answered one after the other over the same store, with the same limit and different
\* pages, share no job.
C14_Answered(s) == reqs[s].op = "getAllJobs" /\ reqs'[s] = Idle
C14_Min(a, b) == IF a < b THEN a ELSE b
C14_Range(seq) == {seq[i] : i \in DOMAIN seq}
C14_PageSize ==
  \A s \in Slots : (C14_Answered(s) /\ reqs[s].totalJobs = Cardinality(DOMAIN jobs)) =>
    \A body \in resp'.out :
      /\ Len(body.jobs) =
           C14_Min(reqs[s].limit,
                   C14_Min(reqs[s].totalJobs,
                           reqs[s].totalJobs - C14_Min(reqs[s].totalJobs,
                                                       (reqs[s].page - 1) * reqs[s].limit)))
      /\ body.totalPages * reqs[s].limit >= reqs[s].totalJobs
      /\ (body.totalPages - 1) * reqs[s].limit < reqs[s].totalJobs \/ body.totalPages = 0
C14_Defaults ==
  \A p, l \in QueryValues : getAllJobs_count(p, l, MaxInFlight) =>
    \A s \in Slots : reqs'[s] # reqs[s] =>
      /\ reqs'[s].page = (IF p.kind = "int" /\ p.n >= 1 THEN p.n ELSE 1)
      /\ reqs'[s].limit = (IF l.kind = "int" /\ l.n >= 1 THEN l.n ELSE 10)
C14_Disjoint ==
  \A s \in Slots : (C14_Answered(s) /\ resp.op = "getAllJobs") =>
    \A prev \in resp.out : \A cur \in resp'.out :
      ( /\ prev.totalJobs = Cardinality(DOMAIN jobs) /\ cur.totalJobs = prev.totalJobs
        /\ prev.currentPage < prev.totalPages /\ Len(prev.jobs) = reqs[s].limit
        /\ cur.currentPage # prev.currentPage )
      => C14_Range(prev.jobs) \cap C14_Range(cur.jobs) = {}
C14_Pagination == [][C14_PageSize /\ C14_Defaults /\ C14_Disjoint]_vars

\* C15: getAllJobs answers without a bearer token, and within every page a job created
\* later stands before a job created earlier.
C15_NewestFirst ==
  resp.op = "getAllJobs" =>
    /\ resp.caller = Anonymous /\ resp.status = 200
    /\ \A body \in resp.out : \A i, j \in DOMAIN body.jobs :
         i < j => body.jobs[i] > body.jobs[j]

\* C16: no job whose stored expired flag is true is listed by getAllJobs or counted in
\* its totalJobs.
C16_OnlyActiveListed ==
  resp.op = "getAllJobs" =>
    \A body \in resp.out :
      /\ \A i \in DOMAIN body.jobs : ~jobs[body.jobs[i]].expired
      /\ body.totalJobs <= Cardinality({j \in DOMAIN jobs : ~jobs[j].expired})

C18_NoOrphans ==
  InFlight = {} => \A f \in files : \E u \in DOMAIN users : users[u].resume = {Uploaded(f)}

\* C19: a request of a permitted caller that names an absent document is answered 404 and
\* changes no store: updateJob, deleteJob and getSingleJob on a job id,
\* jobseekerDeleteApplication on an application id, updateUser on a user id.
C19_Stores == <<users, jobs, applications, files>>
C19_NotFoundIs404 ==
  [][/\ ( /\ resp'.op \in {"updateJob", "deleteJob"} /\ RoleOf(resp'.caller) = Employer
           /\ resp'.id \notin DOMAIN jobs /\ reqs' = reqs )
          => (resp'.status = 404 /\ C19_Stores' = C19_Stores)
     /\ (resp'.op = "getSingleJob" /\ resp'.id \notin DOMAIN jobs)
          => (resp'.status = 404 /\ C19_Stores' = C19_Stores)
     /\ ( /\ resp'.op = "jobseekerDeleteApplication" /\ RoleOf(resp'.caller) = JobSeeker
           /\ resp'.id \notin DOMAIN applications )
          => (resp'.status = 404 /\ C19_Stores' = C19_Stores)
     /\ (resp'.op = "updateUser" /\ resp'.id \notin DOMAIN users)
          => (resp'.status = 404 /\ C19_Stores' = C19_Stores)]_vars

\* C20: a request of the wrong role is answered 403 and changes no store: getMyJobs,
\* updateJob and deleteJob of a Job Seeker; postApplication, jobseekerGetAllApplications
\* and jobseekerDeleteApplication of an Employer.
C20_WrongRoleIs403 ==
  [][/\ ( /\ resp'.op \in {"getMyJobs", "updateJob", "deleteJob"}
           /\ RoleOf(resp'.caller) = JobSeeker )
          => (resp'.status = 403 /\ C19_Stores' = C19_Stores)
     /\ ( /\ resp'.op \in {"postApplication", "jobseekerGetAllApplications",
                            "jobseekerDeleteApplication"}
           /\ RoleOf(resp'.caller) = Employer )
          => (resp'.status = 403 /\ C19_Stores' = C19_Stores)]_vars

\* C21: a postJob whose document fails a validator of jobSchema, and a register whose
\* form is complete but fails a validator of userSchema (a role outside the enum
\* included), are answered 400 and leave the stores unchanged.
C21_ValidationIs400 ==
  [][/\ \A u \in DOMAIN users : \A b \in PostJobBodies :
          (postJob(u, b) /\ ~jobSchemaValid(jobDefaults(postJobDoc(b, users[u]), now)))
            => (resp'.status = 400 /\ jobs' = jobs /\ users' = users)
     /\ \A b \in SignUps :
          (register(b) /\ ~registerRejects(b) /\ ~userSchemaValid(registerDoc(b, NoId)))
            => (resp'.status = 400 /\ jobs' = jobs /\ users' = users)]_vars

C26_LogoutClearsSession ==
  [][\A ok \in BOOLEAN : logout_settled(ok) =>
       /\ authContext'.token = None /\ authContext'.user = None
       /\ localStorage' = None]_vars
C26_Witness ==
  /\ awaiting.settled = "rejected" /\ awaiting.logoutUser = 0
  /\ awaiting.getCurrentUser # {}
  /\ authContext.token = None /\ authContext.user = None /\ localStorage = None

\* C27: an updateJob answered 200 carries the updated job document, never null, and the
\* job it names is in the store when the answer is written.
C27_UpdateAnswersStoredJob ==
  (resp.op = "updateJob" /\ resp.status = 200) =>
     (resp.id # NoId /\ resp.id \in DOMAIN jobs)

\* C28: an updateUser whose :id is not the caller's own id changes no user record.
C28_OnlyOwnRecordUpdated ==
  [][\A u \in DOMAIN users : \A id \in UserIds \ {u} : \A b \in AccountPatches :
       updateUser(u, id, b) => users' = users]_vars

====
